---- MODULE Spec2Model ----
(***************************************************************************)
(* A model of the webpackager serving handler (server.Handler), of the     *)
(* flag-built valid-period rule, of the exchange factory and of the        *)
(* resource cache the handler's packager builds into.                      *)
(*                                                                         *)
(* Strings are sequences of tokens: a token stands for a run of characters *)
(* that the URL code never splits ("https", "a.example", "..") or for one  *)
(* delimiter character (":", "/", "?", "#", "@", "&", "=").                *)
(***************************************************************************)
EXTENDS Integers, Sequences, FiniteSets, TLC

(***************************************************************************)
(* Bounds of the model.                                                    *)
(***************************************************************************)
\* Longest path, in segments, of a sign URL a request carries.
MaxSegs == 2
\* Most preloads the packager pipeline runs for one root request.
MaxPreloads == 1
\* Concurrent runs of the pipeline on the resource cache.
NumRequests == 3
\* Longest payload of a response, in bytes.
MaxPayloadLen == 2
\* Most errors in one error value, and the deepest nesting of aggregates.
MaxLeaves == 2
MaxDepth == 2
\* Most tasks in the task set of an HTML processor.
MaxTasks == 3

(***************************************************************************)
(* String helpers (package strings), on token sequences.                   *)
(***************************************************************************)
HasPrefix(s, p) == Len(p) <= Len(s) /\ SubSeq(s, 1, Len(p)) = p

TrimPrefix(s, p) == IF HasPrefix(s, p) THEN SubSeq(s, Len(p) + 1, Len(s)) ELSE s

\* strings.Index: position of the first t in s, 0 when there is none.
Index(s, t) ==
    IF \E i \in 1..Len(s) : s[i] = t
    THEN CHOOSE i \in 1..Len(s) : s[i] = t /\ \A j \in 1..(i - 1) : s[j] # t
    ELSE 0

\* strings.LastIndex.
LastIndex(s, t) ==
    IF \E i \in 1..Len(s) : s[i] = t
    THEN CHOOSE i \in 1..Len(s) : s[i] = t /\ \A j \in (i + 1)..Len(s) : s[j] # t
    ELSE 0

Before(s, i) == SubSeq(s, 1, i - 1)
After(s, i) == SubSeq(s, i + 1, Len(s))

MapSeq(s, F(_)) == [i \in 1..Len(s) |-> F(s[i])]

(***************************************************************************)
(* net/url as the handler uses it: url.Parse, URL.String, url.PathEscape   *)
(* and URL.Query().Get.                                                    *)
(***************************************************************************)
Delims == {":", "/", "?", "#", "@", "&", "="}

\* Percent-escapes the model knows, with the text they decode to.
PercentDecoded(t) ==
    CASE t = "%2e%2e" -> ".."
      [] t = "%23" -> "#"
      [] t = "%3C" -> "<"
      [] t = "%252e%252e" -> "%2e%2e"
      [] OTHER -> t

\* url.unescape of a path or of a query value.
Unescape(s) == MapSeq(s, PercentDecoded)

\* url.PathEscape: escapes what may not stand in a path segment, "%" included.
PathEscaped(t) ==
    CASE t = "<" -> "%3C"
      [] t = "?" -> "%3F"
      [] t = "/" -> "%2F"
      [] t = "#" -> "%23"
      [] t = "%2e%2e" -> "%252e%252e"
      [] t = "%23" -> "%2523"
      [] t = "%3C" -> "%253C"
      [] OTHER -> t

PathEscape(s) == MapSeq(s, PathEscaped)

\* A token a URL scheme may consist of (letters first, no delimiter).
IsSchemeToken(t) == t \in {"https", "http", "a.example", "b.example", "user", "k", "v", "sign", "frag"}

NoURL ==
    [ok |-> FALSE, scheme |-> "", opaque |-> <<>>, hasUser |-> FALSE, user |-> <<>>,
     host |-> <<>>, path |-> <<>>, rawpath |-> <<>>, rawquery |-> <<>>,
     fragment |-> <<>>, omitHost |-> FALSE]

\* url.getScheme: <<ok, scheme, rest>>.
getScheme(raw) ==
    IF raw = <<>> THEN <<TRUE, "", raw>>
    ELSE IF raw[1] = ":" THEN <<FALSE, "", raw>>            \* missing protocol scheme
    ELSE IF IsSchemeToken(raw[1]) /\ Len(raw) >= 2 /\ raw[2] = ":"
         THEN <<TRUE, raw[1], SubSeq(raw, 3, Len(raw))>>
    ELSE <<TRUE, "", raw>>

\* url.parseAuthority: <<hasUser, user, host>>.
parseAuthority(authority) ==
    LET i == LastIndex(authority, "@")
    IN  IF i = 0 THEN <<FALSE, <<>>, authority>>
        ELSE <<TRUE, Before(authority, i), After(authority, i)>>

\* URL.setPath: Path is the unescaped path, RawPath is kept only when it is
\* not the default encoding of Path.
setPathTo(u, p, path) ==
    [u EXCEPT !.path = path, !.rawpath = IF path = p THEN <<>> ELSE p]
setPath(u, p) == setPathTo(u, p, Unescape(p))

setAuthority(u, auth) ==
    [u EXCEPT !.hasUser = auth[1], !.user = auth[2], !.host = auth[3]]

\* The authority is what follows "//" up to the next "/", found at j.
parseHostAt(u, afterSl, j) ==
    setPath(setAuthority(u, parseAuthority(IF j = 0 THEN afterSl ELSE Before(afterSl, j))),
            IF j = 0 THEN <<>> ELSE SubSeq(afterSl, j, Len(afterSl)))

firstSegment(rest, i) == IF i = 0 THEN rest ELSE Before(rest, i)

\* The rest after the scheme and the query were cut off.
parseRest(scheme, rest, rawquery) ==
    IF ~HasPrefix(rest, <<"/">>) /\ scheme # ""
    THEN [NoURL EXCEPT !.ok = TRUE, !.scheme = scheme, !.opaque = rest,
                       !.rawquery = rawquery]
    ELSE IF ~HasPrefix(rest, <<"/">>) /\ Index(firstSegment(rest, Index(rest, "/")), ":") # 0
    THEN NoURL                               \* first path segment cannot contain colon
    ELSE IF HasPrefix(rest, <<"/", "/">>)
            /\ (scheme # "" \/ ~HasPrefix(rest, <<"/", "/", "/">>))
    THEN parseHostAt([NoURL EXCEPT !.ok = TRUE, !.scheme = scheme, !.rawquery = rawquery],
                     SubSeq(rest, 3, Len(rest)), Index(SubSeq(rest, 3, Len(rest)), "/"))
    ELSE setPath([NoURL EXCEPT !.ok = TRUE, !.scheme = scheme, !.rawquery = rawquery,
                               !.omitHost = scheme # "" /\ HasPrefix(rest, <<"/">>)],
                 rest)

\* The query is cut at the first "?", found at q.
parseQuery(scheme, rest, q) ==
    parseRest(scheme, IF q = 0 THEN rest ELSE Before(rest, q),
              IF q = 0 THEN <<>> ELSE After(rest, q))

parseScheme(sch) ==
    IF ~sch[1] THEN NoURL ELSE parseQuery(sch[2], sch[3], Index(sch[3], "?"))

\* url.parse(rawURL, viaRequest = false), after the fragment was cut off.
parseNoFragment(raw) == parseScheme(getScheme(raw))

setFragment(u, frag) == IF u.ok THEN [u EXCEPT !.fragment = Unescape(frag)] ELSE u

\* url.Parse: the fragment is cut at the first "#", found at h, and the rest
\* is parsed.
parseAt(raw, h) ==
    IF h = 0 THEN parseNoFragment(raw)
    ELSE setFragment(parseNoFragment(Before(raw, h)), After(raw, h))
Parse(raw) == parseAt(raw, Index(raw, "#"))

\* URL.EscapedPath: RawPath when it still encodes Path, the default encoding
\* of Path otherwise.
EscapedPath(u) ==
    IF u.rawpath # <<>> /\ Unescape(u.rawpath) = u.path THEN u.rawpath ELSE u.path

\* URL.String.
String(u) ==
    LET scheme == IF u.scheme # "" THEN <<u.scheme, ":">> ELSE <<>>
        slashes == IF (u.scheme # "" \/ u.host # <<>> \/ u.hasUser)
                      /\ ~(u.omitHost /\ u.host = <<>> /\ ~u.hasUser)
                      /\ (u.host # <<>> \/ u.path # <<>> \/ u.hasUser)
                   THEN <<"/", "/">> ELSE <<>>
        user == IF u.hasUser THEN u.user \o <<"@">> ELSE <<>>
        p == EscapedPath(u)
        sep == IF p # <<>> /\ p[1] # "/" /\ u.host # <<>> THEN <<"/">> ELSE <<>>
        body == IF u.opaque # <<>> THEN u.opaque
                ELSE slashes \o user \o u.host \o sep \o p
        query == IF u.rawquery # <<>> THEN <<"?">> \o u.rawquery ELSE <<>>
        frag == IF u.fragment # <<>> THEN <<"#">> \o u.fragment ELSE <<>>
    IN  scheme \o body \o query \o frag

\* URL.Query().Get(key): the unescaped value of the first key=value pair of
\* the raw query whose key is key, "" when there is none.
RECURSIVE QueryGet(_, _)
QueryGet(rawquery, key) ==
    IF rawquery = <<>> THEN <<>>
    ELSE LET a == Index(rawquery, "&")
             pair == IF a = 0 THEN rawquery ELSE Before(rawquery, a)
             more == IF a = 0 THEN <<>> ELSE After(rawquery, a)
             e == Index(pair, "=")
             k == IF e = 0 THEN pair ELSE Before(pair, e)
             v == IF e = 0 THEN <<>> ELSE After(pair, e)
         IN  IF Unescape(k) = <<key>> THEN Unescape(v) ELSE QueryGet(more, key)

(***************************************************************************)
(* Package path and urlutil.                                               *)
(***************************************************************************)
\* The segments of a path: the token runs between its "/".
RECURSIVE Split(_)
Split(s) ==
    LET i == Index(s, "/")
    IN  IF i = 0 THEN <<s>> ELSE <<Before(s, i)>> \o Split(After(s, i))

\* path.Clean on a rooted path, segment by segment: "" and "." are dropped,
\* ".." removes the segment before it and is dropped at the root.
RECURSIVE cleanSegments(_, _)
cleanSegments(segs, stack) ==
    IF segs = <<>> THEN stack
    ELSE LET x == Head(segs)
         IN  cleanSegments(Tail(segs),
                 IF x = <<>> \/ x = <<".">> THEN stack
                 ELSE IF x = <<"..">>
                      THEN (IF stack = <<>> THEN stack ELSE SubSeq(stack, 1, Len(stack) - 1))
                 ELSE Append(stack, x))

RECURSIVE Join(_)
Join(segs) == IF segs = <<>> THEN <<>> ELSE <<"/">> \o Head(segs) \o Join(Tail(segs))

PathClean(p) ==
    LET segs == cleanSegments(Split(p), <<>>)
    IN  IF segs = <<>> THEN <<"/">> ELSE Join(segs)

\* urlutil.GetCleanPath: the path of u cleaned, rooted, with its trailing
\* slash kept.
GetCleanPath(u) ==
    LET p == IF u.path # <<>> /\ u.path[1] = "/" THEN u.path ELSE <<"/">> \o u.path
        np == PathClean(p)
    IN  IF u.path = <<>> THEN <<"/">>
        ELSE IF p[Len(p)] = "/" /\ np # <<"/">> THEN np \o <<"/">> ELSE np

(***************************************************************************)
(* The handler's configuration (server.Config) and NewHandler.             *)
(***************************************************************************)
mimeTypeCertChain == "application/cert-chain+cbor"
mimeTypeExchange == "application/signed-exchange"
mimeTypeValidity == "application/cbor"
emptyMapCBOR == <<"0xa0">>

\* tomlconfig.ServerConfig, as in webpkgserver.example.toml.
ServerConfig ==
    [DocPath |-> <<"/", "priv", "/", "doc", "/">>,
     CertPath |-> <<"/", "webpkg", "/", "cert">>,
     ValidityPath |-> <<"/", "webpkg", "/", "validity">>,
     HealthPath |-> <<"/", "healthz">>,
     SignParam |-> "sign"]

\* NewHandler removes the trailing slash of every path.
DocPath == PathClean(ServerConfig.DocPath)
CertPath == PathClean(ServerConfig.CertPath)
ValidityPath == PathClean(ServerConfig.ValidityPath)
HealthPath == PathClean(ServerConfig.HealthPath)
SignParam == ServerConfig.SignParam

\* http.ServeMux as NewHandler sets it up: the pattern CertPath+"/" is a
\* subtree, the other three are exact paths; a path that is not clean, or that
\* is a subtree's root without its slash, is redirected; no match is 404.
MuxRoute(path) ==
    LET clean == IF path = <<>> THEN <<"/">>
                 ELSE LET np == PathClean(path)
                      IN  IF path[Len(path)] = "/" /\ np # <<"/">> THEN np \o <<"/">> ELSE np
    IN  IF path = CertPath THEN "redirect"
        ELSE IF clean # path THEN "redirect"
        ELSE IF path = DocPath THEN "doc"
        ELSE IF path = ValidityPath THEN "validity"
        ELSE IF path = HealthPath THEN "health"
        ELSE IF HasPrefix(path, CertPath \o <<"/">>) THEN "cert"
        ELSE "notfound"

(***************************************************************************)
(* Replies (replyOK, replyError, replyClientError, replyClientErrorSilent,  *)
(* replyServerError).                                                      *)
(***************************************************************************)
NoReply == [status |-> 0, ctype |-> "", body |-> <<>>, detail |-> ""]

replyOK(body, ctype) == [status |-> 200, ctype |-> ctype, body |-> body, detail |-> ""]

\* The status and its standard text.
replyError(code) == [status |-> code, ctype |-> "text/plain", body |-> <<"StatusText">>, detail |-> ""]

\* 400 with the reason.
replyClientError(why) == [status |-> 400, ctype |-> "text/plain", body |-> <<"StatusText">>, detail |-> why]

\* 400 and nothing else.
replyClientErrorSilent == [status |-> 400, ctype |-> "text/plain", body |-> <<>>, detail |-> ""]

\* 500; the detail goes to the log.
replyServerError(why) == [status |-> 500, ctype |-> "text/plain", body |-> <<"StatusText">>, detail |-> why]

(***************************************************************************)
(* Sign-URL validation and the Accept header.                              *)
(***************************************************************************)
\* parseSignURL: <<error, u>>, error "" on success.
\* The checks of parseSignURL without the one for user:pass@.
checkSignURLNoUser(u) ==
    IF ~u.ok THEN <<"parse error", NoURL>>
    ELSE IF u.scheme # "https" THEN <<"must start with https://", NoURL>>
    ELSE IF u.fragment # <<>> THEN <<"must not have #fragment", NoURL>>
    ELSE <<"", [u EXCEPT !.path = GetCleanPath(u),
                         !.rawquery = PathEscape(u.rawquery)]>>

checkSignURL(u) ==
    IF ~u.ok THEN <<"parse error", NoURL>>
    ELSE IF u.scheme # "https" THEN <<"must start with https://", NoURL>>
    ELSE IF u.hasUser THEN <<"must not have user:pass@", NoURL>>
    ELSE IF u.fragment # <<>> THEN <<"must not have #fragment", NoURL>>
    ELSE <<"", [u EXCEPT !.path = GetCleanPath(u),
                         !.rawquery = PathEscape(u.rawquery)]>>
parseSignURL(rawurl) ==
    IF rawurl = <<>> THEN <<"must be non-empty", NoURL>> ELSE checkSignURL(Parse(rawurl))

\* verifyAcceptHeader: some Accept value contains application/signed-exchange.
verifyAcceptHeader(accept) ==
    \E i \in 1..Len(accept) : \E j \in 1..Len(accept[i]) : accept[i][j] = mimeTypeExchange

(***************************************************************************)
(* Errors: *webpackager.Error (an error wrapped with the URL it is about),  *)
(* *multierror.Error (an aggregate), *preverify.HTTPStatusError,            *)
(* fetch.ErrURLMismatch and any other error.                               *)
(***************************************************************************)
Nil == [type |-> "nil"]
HTTPStatusError(code) == [type |-> "httpstatus", code |-> code]
ErrURLMismatch == [type |-> "urlmismatch"]
ErrOther == [type |-> "other"]
WrapError(err, url) == [type |-> "wrapped", url |-> url, inner |-> err]
MultiError(errs) == [type |-> "multi", errors |-> errs]

\* multierror.Append(errs, e) on the list of errs: a nil e is skipped, an
\* aggregate e is flattened into the list.
multierrorAppend(errs, e) ==
    IF e.type = "nil" THEN errs
    ELSE IF e.type = "multi" THEN errs \o e.errors
    ELSE Append(errs, e)

\* filterError that keeps a *webpackager.Error whatever its URL.
filterWrappedAny(err, url) == err

\* filterError on a *webpackager.Error: kept when it is about url.
filterWrapped(err, url) == IF err.url # url THEN Nil ELSE err

\* filterError.
RECURSIVE filterError(_, _)
RECURSIVE filterErrors(_, _, _)
filterErrors(children, url, errs) ==
    IF children = <<>> THEN errs
    ELSE filterErrors(Tail(children), url,
                      multierrorAppend(errs, filterError(Head(children), url)))

filterError(err, url) ==
    IF err.type = "wrapped"
    THEN filterWrapped(err, url)
    ELSE IF err.type = "multi"
    THEN LET errs == filterErrors(err.errors, url, <<>>)
         IN  IF Len(errs) = 1 THEN errs[1]
             ELSE IF errs = <<>> THEN Nil ELSE MultiError(errs)
    ELSE err

\* xerrors.Is(err, target): err or an error it wraps is target; an aggregate
\* is searched through all its errors.
RECURSIVE Is(_, _)
Is(err, target) ==
    IF err = target THEN TRUE
    ELSE IF err.type = "wrapped" THEN Is(err.inner, target)
    ELSE IF err.type = "multi" THEN \E i \in 1..Len(err.errors) : Is(err.errors[i], target)
    ELSE FALSE

(***************************************************************************)
(* handleDocImpl.                                                          *)
(***************************************************************************)
NoResource == [url |-> <<>>, serializable |-> FALSE]
Resource(url, ok) == [url |-> url, serializable |-> ok]

\* r.Exchange.Write into the body buffer, and the exchange's MIME type.
ExchangeBody(r) == <<"sxg1-b3">> \o r.url
ExchangeMimeType == "application/signed-exchange;v=b3"

\* handleDocImpl up to the call of Packager.RunForRequest: the reply when the
\* request is rejected, and otherwise the URL the packager is called with.
NoCall(reply) == [call |-> FALSE, reply |-> reply, target |-> <<>>, handed |-> NoURL]
\* http.NewRequest(GET, u.String(), nil) and the call of RunForRequest.
docRun(target, newReq) ==
    IF ~newReq.ok THEN NoCall(replyServerError("http.NewRequest"))
    ELSE [call |-> TRUE, reply |-> NoReply, target |-> target, handed |-> newReq]
docNewRequest(target) == docRun(target, Parse(target))
docRequest(parsed) ==
    IF parsed[1] # "" THEN NoCall(replyClientError("invalid sign url"))
    ELSE docNewRequest(String(parsed[2]))
docStart(signURL, accept) ==
    IF ~verifyAcceptHeader(accept) THEN NoCall(replyClientError("Accept header missing"))
    ELSE docRequest(parseSignURL(signURL))

\* The classification without the case of fetch.ErrURLMismatch.
docErrorReplyNoMismatch(err) ==
    IF err.type = "httpstatus" THEN replyError(err.code)
    ELSE IF err # Nil THEN replyServerError("Packager.RunForRequest")
    ELSE NoReply

\* The classification with 502 for the errors that are neither.
docErrorReplyBadGateway(err) ==
    IF err.type = "httpstatus" THEN replyError(err.code)
    ELSE IF Is(err, ErrURLMismatch) THEN replyClientErrorSilent
    ELSE IF err # Nil THEN replyError(502)
    ELSE NoReply

\* The classification of the filtered error of a failed run.
docErrorReply(err) ==
    IF err.type = "httpstatus" THEN replyError(err.code)
    ELSE IF Is(err, ErrURLMismatch) THEN replyClientErrorSilent
    ELSE IF err # Nil THEN replyServerError("Packager.RunForRequest")
    ELSE NoReply

\* handleDocImpl from the return of Packager.RunForRequest with (r, err).
docFinish(r, err, target) ==
    LET early == IF err # Nil THEN docErrorReply(filterError(err, target)) ELSE NoReply
    IN  IF early # NoReply THEN early
        ELSE IF r = NoResource THEN replyServerError("no resource")
        ELSE IF ~r.serializable THEN replyServerError("serializing exchange")
        ELSE replyOK(ExchangeBody(r), ExchangeMimeType)

(***************************************************************************)
(* The certificate manager as the handler sees it: the current augmented   *)
(* chain and the cache of chains by digest.                                *)
(***************************************************************************)
NoChain == [digest |-> "", state |-> "none"]
Chains ==
    {[digest |-> "d1", state |-> "good"],
     [digest |-> "d2", state |-> "testcert"],
     [digest |-> "d3", state |-> "expired"]}

\* AugmentedChain.VerifyAll(now, disallowTestCert).
VerifyAll(ac, disallowTestCert) ==
    ac.state = "good" \/ (ac.state = "testcert" /\ ~disallowTestCert)

\* A Read that finds every chain there is, in whatever cache.
CacheReadKnown(cache, digest) ==
    IF \E c \in Chains : <<c.digest>> = digest
    THEN CHOOSE c \in Chains : <<c.digest>> = digest
    ELSE NoChain

\* nullCache.Read and the reading of a cache that keeps what was written:
\* the chain with the digest, NoChain for ErrNotFound.
CacheRead(cache, digest) ==
    IF cache.kind = "null" THEN NoChain
    ELSE IF \E c \in cache.store : <<c.digest>> = digest
         THEN CHOOSE c \in cache.store : <<c.digest>> = digest
         ELSE NoChain

\* nullCache.ReadLatest and the latest chain of a cache that keeps what was
\* written: NoChain for ErrNotFound.
CacheReadLatest(cache) ==
    IF cache.kind = "null" THEN NoChain ELSE cache.latest

\* nullCache.Write does nothing; a cache that keeps what was written holds
\* the chain under its digest from then on.
CacheWrite(cache, ac) ==
    IF cache.kind = "null" THEN cache
    ELSE [cache EXCEPT !.store = @ \cup {ac}, !.latest = ac]

\* The error a read of the cache returns with the chain.
ErrOf(ac) == IF ac = NoChain THEN "ErrNotFound" ELSE ""

\* handleCert replying 200 whatever Cache.Read returned.
handleCertNoCheck(path, cache) ==
    replyOK(<<"cbor", CacheRead(cache, TrimPrefix(path, CertPath \o <<"/">>)).digest>>,
            mimeTypeCertChain)

\* handleCert.
handleCert(path, cache) ==
    LET digest == TrimPrefix(path, CertPath \o <<"/">>)
        ac == CacheRead(cache, digest)
    IN  IF ac = NoChain THEN replyError(404)
        ELSE replyOK(<<"cbor", ac.digest>>, mimeTypeCertChain)

\* handleValidity.
handleValidity == replyOK(emptyMapCBOR, mimeTypeValidity)

\* handleHealth passing AllowTestCert to VerifyAll without the negation.
handleHealthNoNegation(ac, allowTest) ==
    IF ac = NoChain THEN replyError(404)
    ELSE IF ~VerifyAll(ac, allowTest) THEN replyServerError("not healthy")
    ELSE [status |-> 200, ctype |-> "", body |-> <<"ok">>, detail |-> ""]

\* handleHealth.
handleHealth(ac, allowTest) ==
    IF ac = NoChain THEN replyError(404)
    ELSE IF ~VerifyAll(ac, ~allowTest) THEN replyServerError("not healthy")
    ELSE [status |-> 200, ctype |-> "", body |-> <<"ok">>, detail |-> ""]

(***************************************************************************)
(* Requests.                                                               *)
(***************************************************************************)
Methods == {"GET", "POST"}

AcceptHeaders ==
    { <<>>,
      << <<"text/html">>, <<mimeTypeExchange, ";v=b3">> >> }

Schemes == { <<>>, <<"https", ":">>, <<"http", ":">>, <<":">> }
Authorities ==
    { <<>>, <<"/", "/", "a.example">>, <<"/", "/", "user", "@", "a.example">> }
Segments == { <<"..">>, <<".">>, <<>>, <<"b.example">>, <<"%2e%2e">> }

\* The paths of at most n segments.
RECURSIVE PathsUpTo(_)
PathsUpTo(n) ==
    IF n = 0 THEN { <<>> }
    ELSE PathsUpTo(n - 1)
         \cup { p \o <<"/">> \o sg : p \in PathsUpTo(n - 1), sg \in Segments }

\* A sign URL up to its query.
URLBodies ==
    { sc \o au \o p : sc \in Schemes, au \in Authorities, p \in PathsUpTo(MaxSegs) }
Queries == { <<>>, <<"k", "=", "v">> }
Fragments == { <<>>, <<"%23">>, <<"%23", "frag">> }

Request(m, p, q, a) == [method |-> m, path |-> p, rawquery |-> q, accept |-> a]
NoRequest == Request("", <<>>, <<>>, <<>>)

\* {DocPath}/<url>: the URL is in the raw path, its query is the raw query.
DocPathRequests ==
    { Request(m, DocPath \o <<"/">> \o b, q, a) :
        m \in Methods, b \in URLBodies, q \in Queries, a \in AcceptHeaders }

\* {DocPath}?{SignParam}=<url>: the URL is escaped into the query.
DocQueryRequests ==
    { Request(m, DocPath, <<SignParam, "=">> \o b \o f, a) :
        m \in Methods, b \in URLBodies, f \in Fragments, a \in AcceptHeaders }

OtherPaths ==
    { DocPath, CertPath, CertPath \o <<"/", "d1">>, CertPath \o <<"/", "d2">>,
      CertPath \o <<"/", "unknown_digest">>, ValidityPath, HealthPath,
      HealthPath \o <<"/">>, <<"/">>, <<"/", "priv", "/", "..", "/", "healthz">> }
OtherRequests ==
    { Request(m, p, <<>>, a) : m \in Methods, p \in OtherPaths, a \in AcceptHeaders }

Requests == DocPathRequests \cup DocQueryRequests \cup OtherRequests

(***************************************************************************)
(* The packager pipeline as the handler sees it: Packager.RunForRequest    *)
(* returns a resource, or none, and the errors of the run, each wrapped    *)
(* with the URL it is about.                                               *)
(***************************************************************************)
StatusCodes == {204, 404}
Failures == {HTTPStatusError(c) : c \in StatusCodes} \cup {ErrURLMismatch, ErrOther}

\* The URL of the i-th preload: a.example/preload/x, a.example/preload/x/x, ...
SiblingURL(i) ==
    <<"https", ":", "/", "/", "a.example", "/", "preload">>
    \o [j \in 1..(2 * i) |-> IF j % 2 = 1 THEN "/" ELSE "x"]

\* The results of the preloads of one run: none or a failure for each.
PreloadResults ==
    UNION { [1..n -> {Nil} \cup Failures] : n \in 0..MaxPreloads }

RECURSIVE preloadErrors(_, _)
preloadErrors(results, i) ==
    IF i > Len(results) THEN <<>>
    ELSE (IF results[i] = Nil THEN <<>> ELSE <<WrapError(results[i], SiblingURL(i))>>)
         \o preloadErrors(results, i + 1)

ErrorOrNil(errs) == IF errs = <<>> THEN Nil ELSE MultiError(errs)

RunOutcome(r, err) == [r |-> r, err |-> err]
NoOutcome == RunOutcome(NoResource, Nil)

PipelineOutcomes(target) ==
    \* the exchange factory could not be provided: an error that is not wrapped
    { RunOutcome(NoResource, ErrOther) }
    \* the root failed: its error wrapped with the target, alone or aggregated
    \cup { RunOutcome(NoResource, e) :
             e \in UNION { {WrapError(f, target), MultiError(<<WrapError(f, target)>>)} :
                           f \in Failures } }
    \* the root was packaged: the errors of its preloads, aggregated
    \cup { RunOutcome(Resource(target, ok), ErrorOrNil(preloadErrors(pr, 1))) :
             ok \in BOOLEAN, pr \in PreloadResults }

\* Every error value RunForRequest may return: an error, bare or wrapped
\* with the target or with the URL of a preload, or an aggregate of such
\* errors and aggregates.  An aggregate holds at least one error.
SingleErrors(target) ==
    {HTTPStatusError(204), ErrOther}
    \cup { WrapError(f, target) : f \in {HTTPStatusError(204), ErrURLMismatch, ErrOther} }
    \cup { WrapError(ErrURLMismatch, SiblingURL(1)) }

RECURSIVE ErrorTrees(_, _, _)
RECURSIVE ErrorLists(_, _, _)
\* The errors with n single errors in at most d levels of aggregates.
ErrorTrees(target, d, n) ==
    (IF n = 1 THEN SingleErrors(target) ELSE {})
    \cup (IF d > 0 THEN { MultiError(l) : l \in ErrorLists(target, d - 1, n) } ELSE {})
\* The non-empty lists of such errors with n single errors in all.
ErrorLists(target, d, n) ==
    { <<t>> : t \in ErrorTrees(target, d, n) }
    \cup UNION { { <<t>> \o l : t \in ErrorTrees(target, d, k),
                                 l \in ErrorLists(target, d, n - k) } : k \in 1..(n - 1) }

Errors(target) == {Nil} \cup UNION { ErrorTrees(target, MaxDepth, n) : n \in 1..MaxLeaves }

\* What RunForRequest may return beside the error: no resource, or the
\* resource of the target.
Resources(target) == {NoResource, Resource(target, TRUE), Resource(target, FALSE)}

(***************************************************************************)
(* cmd/webpackager: the valid-period rule built from the flags.            *)
(* Durations are in minutes.                                               *)
(***************************************************************************)
maxExpiry == 7 * (24 * 60)
maxGoodJSExpiry == 1 * (24 * 60)

\* The defaults of --expiry and --js_expiry.
flagExpiryDefault == "72h"
flagJSExpiryDefault == "12h"

\* The values --expiry and --js_expiry are given in the model.
FlagDurations ==
    {flagExpiryDefault, flagJSExpiryDefault, "24h", "168h", "169h", "0s", "-1h", "abc"}

\* time.ParseDuration: <<ok, minutes>>.
ParseDuration(str) ==
    CASE str = "72h" -> <<TRUE, 72 * 60>>
      [] str = "12h" -> <<TRUE, 12 * 60>>
      [] str = "24h" -> <<TRUE, 24 * 60>>
      [] str = "168h" -> <<TRUE, 168 * 60>>
      [] str = "169h" -> <<TRUE, 169 * 60>>
      [] str = "0s" -> <<TRUE, 0>>
      [] str = "-1h" -> <<TRUE, 0 - 60>>
      [] OTHER -> <<FALSE, 0>>

\* parseDuration without the check against max.
parseDurationNoMax(str, max) ==
    LET v == ParseDuration(str)
    IN  IF ~v[1] THEN <<"invalid duration", 0>>
        ELSE IF v[2] <= 0 THEN <<"duration must be positive", 0>>
        ELSE <<"", v[2]>>

\* parseDuration(s, max): <<error, duration>>, error "" on success.
parseDuration(str, max) ==
    LET v == ParseDuration(str)
    IN  IF ~v[1] THEN <<"invalid duration", 0>>
        ELSE IF v[2] <= 0 THEN <<"duration must be positive", 0>>
        ELSE IF v[2] > max THEN <<"duration too large", 0>>
        ELSE <<"", v[2]>>

\* The media types getValidPeriodRuleFromFlags gives the JS lifetime.
JSMediaTypes == {"application/javascript", "text/javascript", "application/x-javascript"}

NoRule == [ok |-> FALSE, perType |-> {}, js |-> 0, default |-> 0]

\* getValidPeriodRuleFromFlags: the rule, or NoRule when a flag is rejected.
getValidPeriodRuleFromFlags(flags) ==
    LET expiry == parseDuration(flags.expiry, maxExpiry)
        maxJSExpiry == IF flags.insecureJSExpiry THEN maxExpiry ELSE maxGoodJSExpiry
        jsExpiry == parseDuration(flags.jsExpiry, maxJSExpiry)
    IN  IF expiry[1] # "" \/ jsExpiry[1] # "" THEN NoRule
        ELSE [ok |-> TRUE, perType |-> JSMediaTypes, js |-> jsExpiry[2],
              default |-> expiry[2]]

(***************************************************************************)
(* Responses, valid periods and the rule's application (vprule).           *)
(***************************************************************************)
\* The media type of a Content-Type value: what precedes its parameters.
MediaType(contentType) == IF contentType = <<>> THEN "" ELSE contentType[1]

ContentTypes ==
    { <<"application/javascript">>, <<"text/javascript", "; charset=utf-8">>,
      <<"application/x-javascript">>, <<"text/html", "; charset=utf-8">>, <<"text/css">> }

NewValidPeriodWithLifetime(date, lifetime) == [date |-> date, expires |-> date + lifetime]

\* vprule.PerContentType(rules, default) of vprule.FixedLifetime rules,
\* applied to a response at time now.
ApplyRule(rule, response, now) ==
    IF MediaType(response.contentType) \in rule.perType
    THEN NewValidPeriodWithLifetime(now, rule.js)
    ELSE NewValidPeriodWithLifetime(now, rule.default)

(***************************************************************************)
(* The exchange factory: Factory.NewExchange and Factory.Verify.           *)
(***************************************************************************)
\* The certificate chains and the keys a factory may be configured with; a
\* chain's leaf certificate names the key that signs for it.  An RSA key is
\* one the signature algorithm does not accept.
CertChains == {[id |-> "chainA", leafKey |-> "keyA"], [id |-> "chainB", leafKey |-> "keyB"]}
PrivateKeys == {"keyA", "keyB", "rsaKey"}

\* Merkle Integrity: the payload in records of recordSize bytes.
RECURSIVE miRecords(_, _)
miRecords(payload, recordSize) ==
    IF Len(payload) <= recordSize THEN <<payload>>
    ELSE <<SubSeq(payload, 1, recordSize)>>
         \o miRecords(SubSeq(payload, recordSize + 1, Len(payload)), recordSize)

RECURSIVE miDecode(_)
miDecode(records) == IF records = <<>> THEN <<>> ELSE Head(records) \o miDecode(Tail(records))

\* The Digest header of an encoded payload.
miDigest(records) == <<"mi-sha256-03", records>>

\* The message a signature covers.
signedMessage(e, certSha256, validityURL, date, expires) ==
    [certSha256 |-> certSha256, validityURL |-> validityURL, date |-> date,
     expires |-> expires, requestURI |-> e.requestURI, status |-> e.status,
     headers |-> e.headers]

NoExchange == [ok |-> FALSE]

\* A signer with Date and Expires taken for each other.
signerPeriodSwapped(vp) == [date |-> vp.expires, expires |-> vp.date]

\* The Date and Expires of the signer NewExchange builds.
signerPeriod(vp) == [date |-> vp.date, expires |-> vp.expires]

\* Factory.NewExchange(resp, vp, validityURL).
NewExchange(fty, response, vp, validityURL) ==
    LET records == miRecords(response.payload, fty.MIRecordSize)
        e == [requestURI |-> response.url, status |-> response.status,
              headers |-> [contentType |-> response.contentType,
                           digest |-> miDigest(records), miRecordSize |-> fty.MIRecordSize]]
        certSha256 == <<"sha256", fty.CertChain.id>>
    IN  IF fty.MIRecordSize <= 0 THEN NoExchange                 \* MiEncodePayload
        ELSE IF fty.PrivateKey = "rsaKey" THEN NoExchange        \* AddSignatureHeader
        ELSE [ok |-> TRUE, requestURI |-> e.requestURI, status |-> e.status,
              headers |-> e.headers, payload |-> records,
              signature |->
                  [date |-> signerPeriod(vp).date, expires |-> signerPeriod(vp).expires,
                   certURL |-> <<"cert-url">>, certSha256 |-> certSha256,
                   validityURL |-> validityURL,
                   key |-> fty.PrivateKey,
                   message |-> signedMessage(e, certSha256, validityURL,
                                             signerPeriod(vp).date, signerPeriod(vp).expires)]]

\* Factory.Verify(e, date): <<ok, payload>>.  The certificate chain is the
\* factory's own, supplied as if fetched from the cert-url.
Verify(fty, e, date) ==
    LET sig == e.signature
        certSha256 == <<"sha256", fty.CertChain.id>>
        fresh == sig.date <= date /\ date <= sig.expires
                 /\ sig.expires - sig.date <= 7 * (24 * 60)
        signed == sig.certSha256 = certSha256
                  /\ sig.key = fty.CertChain.leafKey
                  /\ sig.message = signedMessage(e, sig.certSha256, sig.validityURL,
                                                 sig.date, sig.expires)
        intact == e.headers.digest = miDigest(e.payload)
    IN  IF fresh /\ signed /\ intact THEN <<TRUE, miDecode(e.payload)>>
        ELSE <<FALSE, <<>>>>

\* The middle of a valid period.
Mid(vp) == vp.date + ((vp.expires - vp.date) \div 2)

\* The inputs of the factory in the model.
Factories ==
    [CertChain : CertChains, PrivateKey : PrivateKeys, MIRecordSize : 0..MaxPayloadLen]
Payloads == UNION { [1..n -> {"a", "b"}] : n \in 0..MaxPayloadLen }
Response(ct, inline, payload) ==
    [url |-> <<"https", ":", "/", "/", "a.example", "/", "r">>, status |-> 200,
     contentType |-> ct, inlineScript |-> inline, payload |-> payload]
\* A response has inline scripts only when it is HTML.
Responses ==
    { Response(ct, inline, pl) :
        ct \in ContentTypes, inline \in BOOLEAN, pl \in Payloads }
    \ { Response(ct, TRUE, pl) : ct \in ContentTypes \ { <<"text/html", "; charset=utf-8">> },
                                 pl \in Payloads }
Nows == {6000}
ValidPeriods ==
    { NewValidPeriodWithLifetime(d, l) : d \in Nows, l \in {0, 1, 90, maxExpiry} }
ValidityURLs == { <<"https", ":", "/", "/", "a.example", "/", "r", ".validity", ".6000">> }
VerifyDates(vp) == {Mid(vp), vp.date - 1, vp.expires + 1}

(***************************************************************************)
(* The resource cache: a map from physical URL to artifact with            *)
(* single-flight builds, and the steps of a pipeline run that use it.      *)
(***************************************************************************)
Runs == 1..NumRequests
PhysicalURLs == {"U", "V"}

NoResult == [kind |-> "none", build |-> 0]
NewRun == [pc |-> "new", url |-> "", result |-> NoResult, late |-> FALSE]

\* A lookup that does not see the builds in progress.
lookupNoLease(state, u) == IF state[u] = "building" THEN "absent" ELSE state[u]

\* lookup(url): "ready", "building" or "absent".
lookup(state, u) == state[u]

\* The artifact the cache holds for u.
cached(arts, u) == CHOOSE a \in arts : a.url = u

(***************************************************************************)
(* The processors: the HTML processor with its task set, and the status    *)
(* filter of the preverify step.                                           *)
(***************************************************************************)
\* The errors the tasks of a test return (errDummy).
errDummy(n) == [type |-> "dummy", n |-> n]
\* What a task returns when it is called.
TaskResults == {Nil, errDummy(1), errDummy(2)}
\* Config.TaskSet: the tasks in declared order, each given by what it returns.
TaskSets == UNION { [1..n -> TaskResults] : n \in 0..MaxTasks }

\* A Process that calls every task and returns what the last one returned.
afterTaskAll(ts, pos) ==
    IF pos = Len(ts) THEN [pc |-> "returned", err |-> ts[pos]]
    ELSE [pc |-> "processing", err |-> Nil]

\* HTMLProcessor.Process after the task at pos returned: the error of the
\* task ends the processing, else the next task is called.
afterTask(ts, pos) ==
    IF ts[pos] # Nil THEN [pc |-> "returned", err |-> ts[pos]]
    ELSE IF pos = Len(ts) THEN [pc |-> "returned", err |-> Nil]
    ELSE [pc |-> "processing", err |-> Nil]

\* The responses given to the status filter.
FilterStatusCodes == {200, 204, 404}
FilterHeaders ==
    { <<>>,
      << <<"Cache-Control", "public, max-age=1209600">>,
         <<"Content-Type", "text/html; charset=utf-8">> >> }
FilterResponses ==
    { [status |-> c, header |-> h, payload |-> pl] :
        c \in FilterStatusCodes, h \in FilterHeaders,
        pl \in { <<>>, <<"<!doctype html>", "<p>Hello, world!</p>">> } }

\* A status filter that also fails a response without payload.
HTTPStatusCodeNeedsPayload(allow, resp) ==
    IF resp.status \in allow /\ resp.payload # <<>> THEN Nil
    ELSE HTTPStatusError(resp.status)

\* preverify.HTTPStatusCode(allow...).Process(resp).
HTTPStatusCode(allow, resp) ==
    IF resp.status \in allow THEN Nil ELSE HTTPStatusError(resp.status)

(***************************************************************************)
(* The validity URL rules.                                                 *)
(***************************************************************************)
\* --validity_ext.
ValidityExts == {".validity", ".v"}
\* The physical URLs a rule is applied to.
ValidityPhysicalURLs ==
    { <<"https", ":", "/", "/", "example.com", "/", "index.html">>,
      <<"https", ":", "/", "/", "example.com", "/", "index.php", "?", "id", "=", "42">>,
      <<"https", ":", "/", "/", "example.com", "/", "index.php", "?", "v", "=", ".validity">> }
\* The headers of the response: Last-Modified right, absent, empty, broken.
ValidityHeaders ==
    { << <<"Content-Type", "text/html; charset=utf-8">> >> }
    \cup { << <<"Last-Modified", v>>, <<"Content-Type", "text/html; charset=utf-8">> >> :
             v \in {"Mon, 01 Jul 2019 12:34:56 GMT", "Mon, 01 Jul 2019 00:00:00 GMT",
                    "", "COMPLETELY_BROKEN_DATE_STRING"} }
\* The valid periods, in unix seconds.
ValidityPeriods ==
    { NewValidPeriodWithLifetime(d, 24 * 3600) : d \in {1561939200, 1561984496, 1562000000} }

\* Header.Get: the value of the first header of the name, "" when absent.
HeaderGet(header, name) ==
    IF \E i \in 1..Len(header) : header[i][1] = name
    THEN header[CHOOSE i \in 1..Len(header) :
                  header[i][1] = name /\ \A j \in 1..(i - 1) : header[j][1] # name][2]
    ELSE ""

\* http.ParseTime, on the dates the model knows.
ParseTime(text) ==
    CASE text = "Mon, 01 Jul 2019 12:34:56 GMT" -> [ok |-> TRUE, unix |-> 1561984496]
      [] text = "Mon, 01 Jul 2019 00:00:00 GMT" -> [ok |-> TRUE, unix |-> 1561939200]
      [] OTHER -> [ok |-> FALSE, unix |-> 0]

\* The time of Last-Modified taken as it parses, the zero time on failure.
lastModifiedNoFallback(header, vp) ==
    ParseTime(HeaderGet(header, "Last-Modified")).unix

\* The time AppendExtDotLastModified takes: that of Last-Modified when the
\* header parses, else the date of the valid period.
lastModified(header, vp) ==
    IF ParseTime(HeaderGet(header, "Last-Modified")).ok
    THEN ParseTime(HeaderGet(header, "Last-Modified")).unix
    ELSE vp.date

\* The physical URL without its query.
stripQuery(physurl) ==
    IF Index(physurl, "?") = 0 THEN physurl ELSE Before(physurl, Index(physurl, "?"))

\* appendExtDotUnixTime: the URL without its query, ext, "." and the time in
\* unix seconds, in decimal.
appendExtDotUnixTime(physurl, ext, unix) == stripQuery(physurl) \o <<ext, ".", ToString(unix)>>

\* validity.AppendExtDotLastModified(ext) and
\* validity.AppendExtDotExchangeDate(ext).
AppendExtDotLastModified(ext) == [kind |-> "LastModified", ext |-> ext]
AppendExtDotExchangeDate(ext) == [kind |-> "ExchangeDate", ext |-> ext]
getValidityURLRuleFromFlags(flagValidityExt) == AppendExtDotLastModified(flagValidityExt)
URLRules ==
    { getValidityURLRuleFromFlags(ext) : ext \in ValidityExts }
    \cup { AppendExtDotExchangeDate(ext) : ext \in ValidityExts }

\* URLRule.Apply(physurl, resp, vp).
Apply(rule, physurl, header, vp) ==
    appendExtDotUnixTime(physurl, rule.ext,
                         IF rule.kind = "LastModified" THEN lastModified(header, vp)
                         ELSE vp.date)

(***************************************************************************)
(* The state of the server.                                                *)
(***************************************************************************)
VARIABLES
    pc,             \* where the request in service is: "idle", "running"
                    \* (inside Packager.RunForRequest), "returned", "done"
    req,            \* the request in service
    signURL,        \* the signURL argument of handleDocImpl
    target,         \* u.String(), the URL the packager is asked for
    handed,         \* the URL of the request handed to the packager
    usedMux,        \* whether ServeHTTP passed the request to the ServeMux
    packagerCalls,  \* calls of Packager.RunForRequest for the request
    certCalls,      \* uses of CertManager for the request
    outcome,        \* what Packager.RunForRequest returned
    resp,           \* the reply written
    chain,          \* CertManager's current augmented chain
    certCache,      \* CertManager.Cache
    AllowTestCert,  \* Config.AllowTestCert
    cacheOp,        \* the last call of the certificate cache, and its result
    \* the resource cache and the runs of the pipeline that use it
    cstate,         \* per physical URL: "absent", "building" or "ready"
    artifacts,      \* the artifacts the cache holds
    fetches,        \* per physical URL: invocations of the fetcher
    built,          \* per physical URL: whether a build of it has finished
    run,            \* per run: its position, URL, result, and whether its
                    \* get came after a build of its URL had finished
    \* the command's configuration and the exchange factory
    flags,          \* --expiry, --js_expiry, --insecure_js_expiry
    vpRule,         \* the ValidPeriodRule built from the flags
    fty,            \* the exchange factory's configuration
    exch,           \* the exchange last produced, with what it was made from
    verified,       \* the result of the last Factory.Verify
    \* the processors and the validity URL rule
    procPc,         \* "ready", "processing" (inside HTMLProcessor.Process)
                    \* or "returned"
    taskSet,        \* Config.TaskSet of the HTML processor
    called,         \* the tasks called so far, in the order of the calls
    procErr,        \* the error Process returned
    filterRun,      \* the status filter's allow-set and response
    validityRun     \* the application of a validity URL rule

cacheVars == <<cstate, artifacts, fetches, built, run>>
exchVars == <<flags, vpRule, fty, exch, verified>>
procVars == <<procPc, taskSet, called, procErr, filterRun, validityRun>>

handlerVars ==
    <<pc, req, signURL, target, handed, usedMux, packagerCalls, certCalls, outcome, resp>>
certVars == <<chain, certCache, AllowTestCert, cacheOp>>

NullCache == [kind |-> "null", store |-> {}, latest |-> NoChain]
MemoryCache(cs) ==
    [kind |-> "memory", store |-> cs,
     latest |-> IF cs = {} THEN NoChain ELSE CHOOSE c \in cs : TRUE]

\* No call of the certificate cache has been made.
NoCacheOp ==
    [op |-> "none", arg |-> "", chain |-> NoChain, err |-> "", written |-> {}]

\* The certificate manager after start-up: no chain yet, or a chain loaded
\* and written to the cache.
CertInit ==
    /\ AllowTestCert = FALSE
    /\ cacheOp = NoCacheOp
    /\ \/ chain = NoChain /\ certCache = NullCache
       \/ chain \in {c \in Chains : c.state = "good"} /\ certCache = MemoryCache({chain})

NoFilterRun == [done |-> FALSE]
NoValidityRun == [done |-> FALSE]

\* No processor has run and no rule has been applied.
ProcIdle ==
    /\ procPc = "ready"
    /\ taskSet = <<>>
    /\ called = <<>>
    /\ procErr = Nil
    /\ filterRun = NoFilterRun
    /\ validityRun = NoValidityRun

HandlerIdle ==
    /\ pc = "idle"
    /\ req = NoRequest
    /\ signURL = <<>>
    /\ target = <<>>
    /\ handed = NoURL
    /\ usedMux = FALSE
    /\ packagerCalls = 0
    /\ certCalls = 0
    /\ outcome = NoOutcome
    /\ resp = NoReply

\* ServeHTTP that serves every method.
methodAllowedAny(method) == TRUE

\* ServeHTTP serves GET alone.
methodAllowed(method) == method = "GET"

\* The same of the path as the ServeMux cleans it.
docURLCleaned(path) == TrimPrefix(PathClean(path), DocPath \o <<"/">>)

\* The part of the request path after DocPath and a slash; the path itself
\* when it does not start so.
docURL(path) == TrimPrefix(path, DocPath \o <<"/">>)

\* The dispatch of ServeHTTP for a GET: whether the request goes to
\* handleDocImpl directly, the handler the ServeMux would choose otherwise,
\* and the signURL argument of handleDocImpl.
dispatchTo(q, url, isDocPath) ==
    [isDocPath |-> isDocPath,
     route |-> IF isDocPath THEN "doc" ELSE MuxRoute(Unescape(q.path)),
     sign |-> IF isDocPath
              THEN url \o (IF q.rawquery # <<>> THEN <<"?">> \o q.rawquery ELSE <<>>)
              ELSE QueryGet(q.rawquery, SignParam)]        \* handleDoc
dispatchURL(q, url) == dispatchTo(q, url, Len(url) < Len(q.path))
dispatch(q) == dispatchURL(q, docURL(q.path))              \* req.URL.EscapedPath()

\* handleDocImpl up to the reply or to the call of Packager.RunForRequest.
serveDoc(d, start) ==
    /\ signURL' = d.sign
    /\ target' = start.target
    /\ handed' = start.handed
    /\ resp' = start.reply
    /\ pc' = IF start.call THEN "running" ELSE "done"
    /\ packagerCalls' = IF start.call THEN packagerCalls + 1 ELSE packagerCalls
    /\ UNCHANGED certCalls

\* The handlers of the ServeMux other than handleDoc.
serveMux(q, route) ==
    /\ resp' = CASE route = "cert" -> handleCert(Unescape(q.path), certCache)
                 [] route = "validity" -> handleValidity
                 [] route = "health" -> handleHealth(chain, AllowTestCert)
                 [] route = "redirect" -> replyError(301)
                 [] OTHER -> replyError(404)
    /\ certCalls' = IF route \in {"cert", "health"} THEN certCalls + 1 ELSE certCalls
    /\ pc' = "done"
    /\ UNCHANGED <<signURL, target, handed, packagerCalls>>

serve(q, d) ==
    /\ usedMux' = ~d.isDocPath
    /\ IF d.route = "doc" THEN serveDoc(d, docStart(d.sign, q.accept))
       ELSE serveMux(q, d.route)

\* ServeHTTP, and the handler it dispatches to, up to the reply or to the
\* call of Packager.RunForRequest.
ServeHTTP(q) ==
    /\ pc = "idle"
    /\ req' = q
    /\ outcome' = NoOutcome
    /\ UNCHANGED <<certVars, cacheVars, exchVars, procVars>>
    /\ IF ~methodAllowed(q.method)
       THEN /\ resp' = replyError(405)
            /\ pc' = "done"
            /\ UNCHANGED <<signURL, target, handed, usedMux, packagerCalls, certCalls>>
       ELSE serve(q, dispatch(q))

\* Packager.RunForRequest returns.
RunForRequest ==
    /\ pc = "running"
    /\ \E o \in PipelineOutcomes(target) : outcome' = o
    /\ pc' = "returned"
    /\ UNCHANGED <<req, signURL, target, handed, usedMux, packagerCalls, certCalls, resp>>
    /\ UNCHANGED <<certVars, cacheVars, exchVars, procVars>>

\* Packager.RunForRequest returns, with any error value.
RunForRequestAny ==
    /\ pc = "running"
    /\ \E e \in Errors(target), r \in Resources(target) : outcome' = RunOutcome(r, e)
    /\ pc' = "returned"
    /\ UNCHANGED <<req, signURL, target, handed, usedMux, packagerCalls, certCalls, resp>>
    /\ UNCHANGED <<certVars, cacheVars, exchVars, procVars>>

\* handleDocImpl from the return of Packager.RunForRequest to the reply.
handleDocReply ==
    /\ pc = "returned"
    /\ resp' = docFinish(outcome.r, outcome.err, target)
    /\ pc' = "done"
    /\ UNCHANGED <<req, signURL, target, handed, usedMux, packagerCalls, certCalls, outcome>>
    /\ UNCHANGED <<certVars, cacheVars, exchVars, procVars>>

\* The request is over; the server waits for the next one.
Finish ==
    /\ pc = "done"
    /\ pc' = "idle"
    /\ req' = NoRequest
    /\ signURL' = <<>>
    /\ target' = <<>>
    /\ handed' = NoURL
    /\ usedMux' = FALSE
    /\ packagerCalls' = 0
    /\ certCalls' = 0
    /\ outcome' = NoOutcome
    /\ resp' = NoReply
    /\ UNCHANGED <<certVars, cacheVars, exchVars, procVars>>

(***************************************************************************)
(* The resource cache in use: get(U) by concurrent runs of the pipeline.   *)
(***************************************************************************)
CacheIdle ==
    /\ cstate = [u \in PhysicalURLs |-> "absent"]
    /\ artifacts = {}
    /\ fetches = [u \in PhysicalURLs |-> 0]
    /\ built = [u \in PhysicalURLs |-> FALSE]
    /\ run = [p \in Runs |-> NewRun]

\* Step 3 of a run: the cache check.  A ready artifact is returned, a build
\* in progress is waited for, and otherwise the run takes the lease.
get(p, u) ==
    /\ run[p].pc = "new"
    /\ LET st == lookup(cstate, u)
       IN  /\ run' = [run EXCEPT ![p] =
                 [pc |-> CASE st = "ready" -> "done"
                           [] st = "building" -> "waiting"
                           [] OTHER -> "fetching",
                  url |-> u,
                  result |-> IF st = "ready"
                             THEN [kind |-> "artifact", build |-> cached(artifacts, u).build]
                             ELSE NoResult,
                  late |-> built[u]]]
           /\ cstate' = IF st = "absent" THEN [cstate EXCEPT ![u] = "building"] ELSE cstate
    /\ UNCHANGED <<artifacts, fetches, built>>
    /\ UNCHANGED <<handlerVars, certVars, exchVars, procVars>>

\* Steps 4 to 7 of the run that holds the lease: the fetcher is invoked, and
\* the response is processed and signed, or the run fails.
fetch(p) ==
    /\ run[p].pc = "fetching"
    /\ fetches' = [fetches EXCEPT ![run[p].url] = @ + 1]
    /\ \E kind \in {"artifact", "error"} :
          run' = [run EXCEPT ![p].pc = "finishing",
                             ![p].result = [kind |-> kind, build |-> p]]
    /\ UNCHANGED <<cstate, artifacts, built>>
    /\ UNCHANGED <<handlerVars, certVars, exchVars, procVars>>

\* Step 9: finish_build.  The artifact is stored, the lease is released and
\* the runs waiting for the build get its result.
finish_build(p) ==
    /\ run[p].pc = "finishing"
    /\ LET u == run[p].url
           res == run[p].result
       IN  /\ artifacts' = IF res.kind = "artifact"
                           THEN artifacts \cup {[url |-> u, build |-> p]}
                           ELSE artifacts
           /\ cstate' = [cstate EXCEPT ![u] = IF res.kind = "artifact" THEN "ready"
                                              ELSE "absent"]
           /\ built' = [built EXCEPT ![u] = TRUE]
           /\ run' = [q \in Runs |->
                        IF q = p THEN [run[q] EXCEPT !.pc = "done"]
                        ELSE IF run[q].pc = "waiting" /\ run[q].url = u
                             THEN [run[q] EXCEPT !.pc = "done", !.result = res]
                        ELSE run[q]]
    /\ UNCHANGED fetches
    /\ UNCHANGED <<handlerVars, certVars, exchVars, procVars>>

(***************************************************************************)
(* The command's configuration and the factory in use.                     *)
(***************************************************************************)
NoFlags == [expiry |-> "", jsExpiry |-> "", insecureJSExpiry |-> FALSE]
NotMade == [made |-> FALSE]
NoVerdict == [done |-> FALSE]

ExchIdle ==
    /\ flags = NoFlags
    /\ vpRule = NoRule
    /\ fty = [CertChain |-> [id |-> "chainA", leafKey |-> "keyA"], PrivateKey |-> "keyA",
              MIRecordSize |-> 1]
    /\ exch = NotMade
    /\ verified = NoVerdict

\* getConfigFromFlags, for the valid-period rule.
getConfigFromFlags ==
    /\ flags = NoFlags
    /\ exch = NotMade
    /\ \E e \in FlagDurations, j \in FlagDurations, i \in BOOLEAN :
          /\ flags' = [expiry |-> e, jsExpiry |-> j, insecureJSExpiry |-> i]
          /\ vpRule' = getValidPeriodRuleFromFlags(flags')
    /\ UNCHANGED <<fty, exch, verified>>
    /\ UNCHANGED <<handlerVars, certVars, cacheVars, procVars>>

\* Steps 6 and 7 of a run: the valid period by the configured rule, and the
\* exchange by the factory.
Package ==
    /\ vpRule.ok
    /\ exch = NotMade
    /\ \E response \in Responses, now \in Nows, v \in ValidityURLs :
          LET vp == ApplyRule(vpRule, response, now)
          IN  exch' = [made |-> TRUE, byRule |-> TRUE, response |-> response, vp |-> vp,
                       e |-> NewExchange(fty, response, vp, v)]
    /\ UNCHANGED <<flags, vpRule, fty, verified>>
    /\ UNCHANGED <<handlerVars, certVars, cacheVars, procVars>>

\* Factory.NewExchange with a valid period of the caller's.
MakeExchange ==
    /\ flags = NoFlags
    /\ exch = NotMade
    /\ \E response \in Responses, vp \in ValidPeriods, v \in ValidityURLs :
          exch' = [made |-> TRUE, byRule |-> FALSE, response |-> response, vp |-> vp,
                   e |-> NewExchange(fty, response, vp, v)]
    /\ UNCHANGED <<flags, vpRule, fty, verified>>
    /\ UNCHANGED <<handlerVars, certVars, cacheVars, procVars>>

\* Factory.Verify of the exchange produced.
VerifyExchange ==
    /\ exch.made
    /\ exch.e.ok
    /\ verified = NoVerdict
    /\ \E d \in VerifyDates(exch.vp) :
          verified' = [done |-> TRUE, date |-> d, result |-> Verify(fty, exch.e, d)]
    /\ UNCHANGED <<flags, vpRule, fty, exch>>
    /\ UNCHANGED <<handlerVars, certVars, cacheVars, procVars>>

(***************************************************************************)
(* Specifications.                                                         *)
(***************************************************************************)
vars == <<handlerVars, certVars, cacheVars, exchVars, procVars>>

\* The server: requests are served one after the other.
Init == HandlerIdle /\ CertInit /\ CacheIdle /\ ExchIdle /\ ProcIdle
Next ==
    \/ pc = "idle" /\ \E q \in Requests : ServeHTTP(q)
    \/ RunForRequest
    \/ handleDocReply
    \/ Finish
Spec == Init /\ [][Next]_vars

\* The certificate manager before a chain is loaded.
CertFixed ==
    /\ chain = NoChain
    /\ certCache = NullCache
    /\ AllowTestCert = FALSE
    /\ cacheOp = NoCacheOp

\* handleDocImpl on every error value: a doc request for a valid sign URL
\* has been served up to the call of Packager.RunForRequest.
FilterRequests ==
    { Request("GET", DocPath \o <<"/">> \o b, <<>>, a) :
        b \in { <<"https", ":", "/", "/", "a.example", "/", "b.example">> },
        a \in { aa \in AcceptHeaders : verifyAcceptHeader(aa) } }
Called(q, sign, start) ==
    /\ pc = "running"
    /\ req = q
    /\ signURL = sign
    /\ target = start.target
    /\ handed = start.handed
    /\ usedMux = FALSE
    /\ packagerCalls = 1
    /\ certCalls = 0
    /\ outcome = NoOutcome
    /\ resp = NoReply
CalledWith(q, sign) == Called(q, sign, docStart(sign, q.accept))
InitFilter ==
    /\ \E q \in FilterRequests : CalledWith(q, dispatch(q).sign)
    /\ CertFixed /\ CacheIdle /\ ExchIdle /\ ProcIdle
NextFilter == RunForRequestAny \/ handleDocReply
SpecFilter == InitFilter /\ [][NextFilter]_vars

\* The resource cache under concurrent runs of the pipeline.
InitCache == HandlerIdle /\ CertFixed /\ CacheIdle /\ ExchIdle /\ ProcIdle
NextCache ==
    \/ \E p \in Runs, u \in PhysicalURLs : get(p, u)
    \/ \E p \in Runs : fetch(p)
    \/ \E p \in Runs : finish_build(p)
SpecCache == InitCache /\ [][NextCache]_vars

\* The configuration and the factory.
InitExchange ==
    /\ HandlerIdle /\ CertFixed /\ CacheIdle /\ ProcIdle
    /\ flags = NoFlags /\ vpRule = NoRule /\ exch = NotMade /\ verified = NoVerdict
    /\ fty \in Factories
NextExchange == getConfigFromFlags \/ Package \/ MakeExchange \/ VerifyExchange
SpecExchange == InitExchange /\ [][NextExchange]_vars

(***************************************************************************)
(* The processors and the validity URL rule at work.                       *)
(***************************************************************************)
\* HTMLProcessor.Process(resp) is called, with the task set ts.
Process(ts) ==
    /\ procPc = "ready"
    /\ taskSet' = ts
    /\ procPc' = IF ts = <<>> THEN "returned" ELSE "processing"
    /\ UNCHANGED <<called, procErr, filterRun, validityRun>>
    /\ UNCHANGED <<handlerVars, certVars, cacheVars, exchVars>>

\* The next task of the task set is called and returns.
RunTask ==
    /\ procPc = "processing"
    /\ called' = Append(called, Len(called) + 1)
    /\ procPc' = afterTask(taskSet, Len(called) + 1).pc
    /\ procErr' = afterTask(taskSet, Len(called) + 1).err
    /\ UNCHANGED <<taskSet, filterRun, validityRun>>
    /\ UNCHANGED <<handlerVars, certVars, cacheVars, exchVars>>

\* preverify.HTTPStatusCode(allow...).Process(resp).
HTTPStatusCodeProcess(allow, r) ==
    /\ procPc = "ready"
    /\ filterRun' = [done |-> TRUE, allow |-> allow, resp |-> r,
                     err |-> HTTPStatusCode(allow, r)]
    /\ procPc' = "returned"
    /\ UNCHANGED <<taskSet, called, procErr, validityRun>>
    /\ UNCHANGED <<handlerVars, certVars, cacheVars, exchVars>>

\* rule.Apply(physurl, resp, vp).
ApplyURLRule(rule, physurl, header, vp) ==
    /\ procPc = "ready"
    /\ validityRun' = [done |-> TRUE, rule |-> rule, url |-> physurl, header |-> header,
                       vp |-> vp, got |-> Apply(rule, physurl, header, vp)]
    /\ procPc' = "returned"
    /\ UNCHANGED <<taskSet, called, procErr, filterRun>>
    /\ UNCHANGED <<handlerVars, certVars, cacheVars, exchVars>>

InitProcess == HandlerIdle /\ CertFixed /\ CacheIdle /\ ExchIdle /\ ProcIdle
NextProcess ==
    \/ \E ts \in TaskSets : Process(ts)
    \/ RunTask
    \/ \E allow \in SUBSET FilterStatusCodes, r \in FilterResponses :
          HTTPStatusCodeProcess(allow, r)
    \/ \E rule \in URLRules, physurl \in ValidityPhysicalURLs,
          header \in ValidityHeaders, vp \in ValidityPeriods :
          ApplyURLRule(rule, physurl, header, vp)
SpecProcess == InitProcess /\ [][NextProcess]_vars

(***************************************************************************)
(* The certificate manager and its cache under the cert and health         *)
(* endpoints.                                                              *)
(***************************************************************************)
Digests == {c.digest : c \in Chains} \cup {"unknown_digest"}

\* Cache.Write(ac).
Write(ac) ==
    /\ pc = "idle"
    /\ certCache' = CacheWrite(certCache, ac)
    /\ cacheOp' = [op |-> "write", arg |-> ac.digest, chain |-> NoChain, err |-> "",
                   written |-> cacheOp.written \cup {ac.digest}]
    /\ UNCHANGED <<chain, AllowTestCert, handlerVars, cacheVars, exchVars, procVars>>

\* Cache.Read(digest).
Read(digest) ==
    /\ pc = "idle"
    /\ cacheOp' = [op |-> "read", arg |-> digest,
                   chain |-> CacheRead(certCache, <<digest>>),
                   err |-> ErrOf(CacheRead(certCache, <<digest>>)),
                   written |-> cacheOp.written]
    /\ UNCHANGED <<chain, certCache, AllowTestCert, handlerVars, cacheVars, exchVars, procVars>>

\* Cache.ReadLatest().
ReadLatest ==
    /\ pc = "idle"
    /\ cacheOp' = [op |-> "read_latest", arg |-> "",
                   chain |-> CacheReadLatest(certCache),
                   err |-> ErrOf(CacheReadLatest(certCache)),
                   written |-> cacheOp.written]
    /\ UNCHANGED <<chain, certCache, AllowTestCert, handlerVars, cacheVars, exchVars, procVars>>

\* The manager's refresh: a chain other than the current one is promoted to
\* current and written to the cache.
Refresh(ac) ==
    /\ pc = "idle"
    /\ ac # chain
    /\ chain' = ac
    /\ certCache' = CacheWrite(certCache, ac)
    /\ cacheOp' = [op |-> "write", arg |-> ac.digest, chain |-> NoChain, err |-> "",
                   written |-> cacheOp.written \cup {ac.digest}]
    /\ UNCHANGED <<AllowTestCert, handlerVars, cacheVars, exchVars, procVars>>

\* The requests to the cert, validity and health endpoints.
CertRequests ==
    { Request(m, p, <<>>, <<>>) :
        m \in Methods,
        p \in { CertPath \o <<"/", d>> : d \in Digests }
              \cup { CertPath, ValidityPath, HealthPath, HealthPath \o <<"/">> } }

InitCert ==
    /\ HandlerIdle /\ CacheIdle /\ ExchIdle /\ ProcIdle
    /\ chain = NoChain
    /\ certCache \in {NullCache, MemoryCache({})}
    /\ AllowTestCert \in BOOLEAN
    /\ cacheOp = NoCacheOp
NextCert ==
    \/ \E ac \in Chains : Refresh(ac)
    \/ \E ac \in Chains : Write(ac)
    \/ \E d \in Digests : Read(d)
    \/ ReadLatest
    \/ pc = "idle" /\ \E q \in CertRequests : ServeHTTP(q)
    \/ Finish
SpecCert == InitCert /\ [][NextCert]_vars

(***************************************************************************)
(* Properties of the error handling of the doc endpoint.                   *)
(***************************************************************************)
\* The error of the run as handleDocImpl classifies it.
Filtered == filterError(outcome.err, target)

\* The single errors of an error value, aggregates flattened, in order.
RECURSIVE Flatten(_)
RECURSIVE FlattenAll(_)
Flatten(err) ==
    IF err = Nil THEN <<>>
    ELSE IF err.type = "multi" THEN FlattenAll(err.errors)
    ELSE <<err>>
FlattenAll(errs) == IF errs = <<>> THEN <<>> ELSE Flatten(Head(errs)) \o FlattenAll(Tail(errs))

\* The errors an error value consists of.
ErrorsOf(err) ==
    IF err = Nil THEN <<>> ELSE IF err.type = "multi" THEN err.errors ELSE <<err>>

\* A wrapped error about another URL than url.
Foreign(e, url) == e.type = "wrapped" /\ e.url # url
NotForeign(e) == ~Foreign(e, target)

\* C1: when the run fails with an HTTPStatus(code) error wrapped with the
\* target URL, alone or the only error left after filterError, the doc
\* endpoint replies with status code.
HTTPStatusPassthrough ==
    (/\ pc = "done"
     /\ Filtered.type = "wrapped"
     /\ Filtered.url = target
     /\ Filtered.inner.type = "httpstatus")
    => resp.status = Filtered.inner.code

\* C2: filterError keeps, of the single errors of an error value at any
\* nesting of aggregates, exactly those that are not wrapped with another URL
\* than the target; when none is left it returns no error, and then a run
\* that returned a resource is answered 200 with the serialized exchange.
SiblingErrorsDiscarded ==
    pc \in {"returned", "done"} =>
        /\ ErrorsOf(Filtered) = SelectSeq(Flatten(outcome.err), NotForeign)
        /\ (\A i \in 1..Len(Flatten(outcome.err)) : Foreign(Flatten(outcome.err)[i], target))
              => Filtered = Nil
        /\ (/\ pc = "done"
            /\ \A i \in 1..Len(Flatten(outcome.err)) : Foreign(Flatten(outcome.err)[i], target)
            /\ outcome.r # NoResource
            /\ outcome.r.serializable)
              => resp = replyOK(ExchangeBody(outcome.r), ExchangeMimeType)

\* Errors of two preloads, nested in aggregates, were discarded and the
\* root was served.
SiblingErrorsDiscardedWitness ==
    /\ pc = "done"
    /\ outcome.err.type = "multi"
    /\ Len(Flatten(outcome.err)) = 2
    /\ \A i \in 1..2 : Foreign(Flatten(outcome.err)[i], target)
    /\ \E i \in 1..Len(outcome.err.errors) : outcome.err.errors[i].type = "multi"
    /\ resp.status = 200
    /\ resp.body = ExchangeBody(outcome.r)

\* C10: a URLMismatch error for the target, alone after filtering, is
\* answered 400 with an empty body; an HTTPStatus error is answered with its
\* status.
URLMismatchAlone(err) ==
    \/ err = ErrURLMismatch
    \/ err.type = "wrapped" /\ err.inner = ErrURLMismatch
URLMismatchIsSilent400 ==
    pc = "done" =>
        /\ URLMismatchAlone(Filtered) => (resp.status = 400 /\ resp.body = <<>>)
        /\ Filtered.type = "httpstatus" => resp.status = Filtered.code

\* The URLMismatch of the target was left alone by the filter, the error of
\* a preload beside it discarded.
URLMismatchIsSilent400Witness ==
    /\ pc = "done"
    /\ outcome.err.type = "multi"
    /\ Len(Flatten(outcome.err)) = 2
    /\ Filtered = WrapError(ErrURLMismatch, target)
    /\ resp.status = 400
    /\ resp.body = <<>>

(***************************************************************************)
(* Properties of ServeHTTP and of the validation of the doc endpoint.      *)
(***************************************************************************)
\* The request in service is a GET that ServeHTTP hands to handleDocImpl.
IsDoc == req # NoRequest /\ req.method = "GET" /\ dispatch(req).route = "doc"

\* The Accept header names application/signed-exchange.
AcceptsExchange(accept) ==
    \E i \in 1..Len(accept) : \E j \in 1..Len(accept[i]) :
        accept[i][j] = "application/signed-exchange"

\* The end of the authority of the URL s, which starts at its fifth token:
\* the first "/", "?" or "#" from there on.
AuthorityEnd(s) ==
    IF \E i \in 5..Len(s) : s[i] \in {"/", "?", "#"}
    THEN CHOOSE i \in 5..Len(s) :
            s[i] \in {"/", "?", "#"} /\ \A j \in 5..(i - 1) : s[j] \notin {"/", "?", "#"}
    ELSE Len(s) + 1
\* The authority a URL of scheme https is written with, <<>> when none.
AuthorityOf(s) ==
    IF HasPrefix(s, <<"https", ":", "/", "/">>) THEN SubSeq(s, 5, AuthorityEnd(s) - 1)
    ELSE <<>>
\* The URL is written with something after a "#".
HasFragment(s) == Index(s, "#") # 0 /\ After(s, Index(s, "#")) # <<>>
\* The URL as written is non-empty, of scheme https, without userinfo and
\* without fragment.
ValidSignURL(s) ==
    /\ s # <<>>
    /\ HasPrefix(s, <<"https", ":">>)
    /\ Index(AuthorityOf(s), "@") = 0
    /\ ~HasFragment(s)

\* C3: the doc endpoint calls the packager only when the Accept header
\* names application/signed-exchange and the sign URL is non-empty, https,
\* without userinfo and without fragment; any other doc request is answered
\* 400 without a call, and no request makes more than one call.
DocValidation ==
    /\ packagerCalls <= 1
    /\ packagerCalls = 1 => IsDoc /\ AcceptsExchange(req.accept) /\ ValidSignURL(signURL)
    /\ (IsDoc /\ ~(AcceptsExchange(req.accept) /\ ValidSignURL(signURL)))
          => (pc = "done" /\ resp.status = 400 /\ packagerCalls = 0)

\* A sign URL with userinfo was given with a good Accept header and refused.
DocValidationWitness ==
    /\ pc = "done"
    /\ IsDoc
    /\ AcceptsExchange(req.accept)
    /\ HasPrefix(signURL, <<"https", ":">>)
    /\ Index(AuthorityOf(signURL), "@") # 0
    /\ resp.status = 400
    /\ packagerCalls = 0

\* C4: a request whose method is not GET is answered 405 whatever its
\* endpoint, and neither the packager nor the certificate manager is
\* consulted.
MethodNotAllowed ==
    (req # NoRequest /\ req.method # "GET")
    => (pc = "done" /\ resp = replyError(405) /\ packagerCalls = 0 /\ certCalls = 0)

\* A POST for a chain the certificate cache holds.
MethodNotAllowedWitness ==
    /\ pc = "done"
    /\ req.method = "POST"
    /\ req.path = CertPath \o <<"/", "d1">>
    /\ \E c \in certCache.store : c.digest = "d1"
    /\ resp.status = 405

\* C5: a GET whose raw escaped path starts with DocPath and a slash does
\* not go through the ServeMux; its sign URL is the rest of that path, with
\* "?" and the raw query when there is one; the URL the packager is called
\* with has the authority the sign URL was written with.
DocPathPreserved ==
    (req # NoRequest /\ req.method = "GET" /\ HasPrefix(req.path, DocPath \o <<"/">>))
    => /\ usedMux = FALSE
       /\ signURL = SubSeq(req.path, Len(DocPath) + 2, Len(req.path))
                    \o (IF req.rawquery # <<>> THEN <<"?">> \o req.rawquery ELSE <<>>)
       /\ packagerCalls = 1 =>
             /\ handed.host = AuthorityOf(signURL)
             /\ AuthorityOf(target) = AuthorityOf(signURL)

\* A sign URL with a ".." segment and a query went to the packager with its
\* host.
DocPathPreservedWitness ==
    /\ pc = "running"
    /\ HasPrefix(req.path, DocPath \o <<"/">>)
    /\ req.rawquery # <<>>
    /\ Index(signURL, "..") # 0
    /\ AuthorityOf(signURL) = <<"a.example">>
    /\ handed.host = <<"a.example">>

(***************************************************************************)
(* Properties of the resource cache.                                       *)
(***************************************************************************)
\* The runs for u that came while the cache had seen no build for u end.
Concurrent(u) == { p \in Runs : run[p].pc # "new" /\ run[p].url = u /\ ~run[p].late }
\* The runs that build u now, and those that have built it.
Building(u) == { p \in Runs : run[p].url = u /\ run[p].pc \in {"fetching", "finishing"} }
HasBuilt(u) == { p \in Runs : run[p].url = u /\ run[p].pc = "done" /\ run[p].result.build = p }

\* C6: of the concurrent requests for one URL on an empty cache one alone
\* builds, the fetcher is invoked once for them, the others get the result
\* of that build, and the cache holds at most one artifact for the URL.
SingleFlight ==
    \A u \in PhysicalURLs :
        /\ Cardinality({ a \in artifacts : a.url = u }) <= 1
        /\ Cardinality(Building(u)) <= 1
        /\ Cardinality(Concurrent(u) \cap (Building(u) \cup HasBuilt(u))) <= 1
        /\ (\A p \in Runs : run[p].url = u => ~run[p].late) => fetches[u] <= 1
        /\ \A p \in Concurrent(u) : \A q \in Concurrent(u) :
              (run[p].pc = "done" /\ run[q].pc = "done")
              => /\ run[p].result = run[q].result
                 /\ run[p].result.kind \in {"artifact", "error"}
                 /\ Cardinality(Concurrent(u) \cap HasBuilt(u)) = 1
                 /\ fetches[u] >= 1

\* All the runs asked for the same URL at once and are done with the one
\* artifact built.
SingleFlightWitness ==
    \E u \in PhysicalURLs :
        /\ Concurrent(u) = Runs
        /\ \A p \in Runs : run[p].pc = "done" /\ run[p].result.kind = "artifact"
        /\ fetches[u] = 1
        /\ Cardinality(artifacts) = 1

(***************************************************************************)
(* Properties of the exchange factory and of the valid-period rule.        *)
(***************************************************************************)
\* C7: when NewExchange succeeds, Verify of its exchange at the middle of
\* the valid period succeeds and returns the payload of the response.
RoundTrip ==
    (verified.done /\ verified.date = Mid(exch.vp))
    => verified.result = <<TRUE, exch.response.payload>>

\* C7, amended: the same for a factory whose private key is the key of the
\* leaf certificate of its chain.
RoundTripOwnKey ==
    (verified.done /\ verified.date = Mid(exch.vp)
     /\ fty.PrivateKey = fty.CertChain.leafKey)
    => verified.result = <<TRUE, exch.response.payload>>

\* A payload of more than one record made the round trip.
RoundTripOwnKeyWitness ==
    /\ verified.done
    /\ verified.date = Mid(exch.vp)
    /\ fty.PrivateKey = fty.CertChain.leafKey
    /\ exch.vp.expires > exch.vp.date
    /\ Len(exch.response.payload) > fty.MIRecordSize
    /\ verified.result = <<TRUE, exch.response.payload>>

\* The lifetime of the exchange produced, in minutes.
Lifetime == exch.e.signature.expires - exch.e.signature.date
\* The duration a flag value stands for is positive and at most cap.
WithinCap(str, cap) == ParseDuration(str)[2] > 0 /\ ParseDuration(str)[2] <= cap
JSCap == IF flags.insecureJSExpiry THEN 168 * 60 ELSE 24 * 60

\* C8: under an accepted configuration an exchange of a JavaScript media
\* type lives at most 24h, 168h with insecure_js_expiry, and any other
\* exchange at most 168h; a configuration whose expiry or js_expiry is not
\* positive or is above its cap is rejected.
ExpiryCaps ==
    /\ (flags # NoFlags /\ ~(WithinCap(flags.expiry, 168 * 60) /\ WithinCap(flags.jsExpiry, JSCap)))
          => ~vpRule.ok
    /\ (exch.made /\ exch.byRule /\ exch.e.ok)
          => IF MediaType(exch.response.contentType)
                    \in {"application/javascript", "text/javascript", "application/x-javascript"}
             THEN Lifetime <= JSCap
             ELSE Lifetime <= 168 * 60

\* A script was signed for exactly the 24h that js_expiry may ask for.
ExpiryCapsWitness ==
    /\ exch.made /\ exch.byRule /\ exch.e.ok
    /\ ~flags.insecureJSExpiry
    /\ flags.jsExpiry = "24h"
    /\ MediaType(exch.response.contentType) = "text/javascript"
    /\ Lifetime = 24 * 60

\* C9: the rule built from the flags gives an HTML response with inline
\* scripts the lifetime of js_expiry.
InlineScriptHTMLGetsJSExpiry ==
    (exch.made /\ exch.byRule
     /\ MediaType(exch.response.contentType) = "text/html" /\ exch.response.inlineScript)
    => exch.vp.expires - exch.vp.date = ParseDuration(flags.jsExpiry)[2]


(***************************************************************************)
(* Properties of the cert and health endpoints and of the null cache.      *)
(***************************************************************************)
\* C11: when the run fails for the target URL with an error that is neither
\* an HTTP status nor a URL mismatch, the doc endpoint replies 502.
UpstreamError(err) ==
    \/ err = ErrOther
    \/ err.type = "wrapped" /\ err.url = target /\ err.inner = ErrOther
CertDigest == TrimPrefix(req.path, CertPath \o <<"/">>)
IsCert ==
    /\ req # NoRequest
    /\ req.method = "GET"
    /\ HasPrefix(req.path, CertPath \o <<"/">>)
\* The cache holds a chain under the digest.
Holds(digest) ==
    certCache.kind # "null" /\ \E c \in certCache.store : <<c.digest>> = digest

\* C12: a GET to {CertPath}/<digest> replies 404 exactly when the read of
\* the digest in the certificate cache reports NotFound, and 200 with the
\* cert-chain content type and the chain's CBOR as body when the read returns
\* a chain; serving a request changes neither the cache nor the current
\* chain.
CertServed ==
    (pc = "done" /\ IsCert) =>
        /\ resp.status = 404 <=> ~Holds(CertDigest)
        /\ Holds(CertDigest) =>
              /\ resp.status = 200
              /\ resp.ctype = mimeTypeCertChain
              /\ resp.body = <<"cbor">> \o CertDigest
IsHealth == req # NoRequest /\ req.method = "GET" /\ req.path = HealthPath
\* The current chain passes verify_all with test certificates disallowed
\* unless AllowTestCert is set.
Validates ==
    \/ chain.state = "good"
    \/ chain.state = "testcert" /\ AllowTestCert

\* C13: a GET to {HealthPath} replies 404 when the manager has no current
\* chain, 500 when the current chain does not validate, and 200 with body
\* "ok" exactly when the current chain exists and validates; a chain with a
\* test certificate validates only when AllowTestCert is set.
HealthServed ==
    (pc = "done" /\ IsHealth) =>
        /\ chain = NoChain => resp.status = 404
        /\ (chain # NoChain /\ ~Validates) => resp.status = 500
        /\ (resp.status = 200 /\ resp.body = <<"ok">>) <=> (chain # NoChain /\ Validates)
        /\ (chain.state = "testcert" /\ ~AllowTestCert) => resp.status = 500

\* A chain with a test certificate is healthy where AllowTestCert is set.
HealthServedWitness ==
    /\ pc = "done"
    /\ IsHealth
    /\ chain.state = "testcert"
    /\ AllowTestCert
    /\ resp.status = 200
    /\ resp.body = <<"ok">>

\* C14: with the null cache, after any sequence of writes and reads, every
\* read of a digest reports NotFound, also of a digest that was written,
\* the read of the latest chain reports NotFound, and every write succeeds.
NullCacheKeepsNothing ==
    certCache.kind = "null" =>
        /\ \A d \in Digests : CacheRead(certCache, <<d>>) = NoChain
        /\ CacheReadLatest(certCache) = NoChain
        /\ cacheOp.op \in {"read", "read_latest"} =>
              (cacheOp.chain = NoChain /\ cacheOp.err = "ErrNotFound")
        /\ cacheOp.op = "write" => cacheOp.err = ""

\* The digest of a chain written to the null cache was read, and not found.
NullCacheKeepsNothingWitness ==
    /\ certCache.kind = "null"
    /\ cacheOp.op = "read"
    /\ cacheOp.arg \in cacheOp.written
    /\ cacheOp.err = "ErrNotFound"

\* C18: whenever the manager holds a current chain, a GET to
\* {CertPath}/<digest of the current chain> replies 200 with that chain,
\* whichever cache the manager is configured with.
CurrentChainServable ==
    (pc = "done" /\ IsCert /\ chain # NoChain /\ CertDigest = <<chain.digest>>)
    => (resp.status = 200 /\ resp.body = <<"cbor", chain.digest>>)


(***************************************************************************)
(* Properties of the processors and of the validity URL rules.             *)
(***************************************************************************)
\* The tasks of the task set that fail, and the first of them.
Failing == { i \in 1..Len(taskSet) : taskSet[i] # Nil }
FirstFailing == CHOOSE i \in Failing : \A j \in Failing : i <= j
\* The tasks 1..n, in order.
UpTo(n) == [i \in 1..n |-> i]

\* C15: the HTML processor calls its tasks in declared order, each at most
\* once and none after the first that fails; when Process has returned and
\* task Ti was the first to fail, exactly the tasks up to Ti were called,
\* once each, and Process returned Ti's error; when no task fails, all were
\* called once, in order, and Process returned no error.
TasksInOrder ==
    /\ called = UpTo(Len(called))
    /\ Len(called) <= Len(taskSet)
    /\ Failing # {} => Len(called) <= FirstFailing
    /\ procPc = "returned" =>
          IF Failing # {}
          THEN called = UpTo(FirstFailing) /\ procErr = taskSet[FirstFailing]
          ELSE called = UpTo(Len(taskSet)) /\ procErr = Nil

\* Of three tasks the second failed: two were called, its error returned.
TasksInOrderWitness ==
    /\ procPc = "returned"
    /\ Len(taskSet) = 3
    /\ taskSet[1] = Nil
    /\ taskSet[2] = errDummy(1)
    /\ taskSet[3] = errDummy(2)
    /\ called = <<1, 2>>
    /\ procErr = errDummy(1)

\* C16: the status filter with allow-set S succeeds on a response exactly
\* when the status code of the response is in S, and else fails with
\* HTTPStatus of that status code; the outcome is the same for every
\* response of that status code, whatever its headers and payload.
StatusFilter ==
    filterRun.done =>
        /\ filterRun.err = Nil <=> filterRun.resp.status \in filterRun.allow
        /\ filterRun.err # Nil =>
              filterRun.err = [type |-> "httpstatus", code |-> filterRun.resp.status]
        /\ \A r \in FilterResponses :
              r.status = filterRun.resp.status
              => HTTPStatusCode(filterRun.allow, r) = filterRun.err

\* A 204 without headers and payload failed a filter that allows 200 only.
StatusFilterWitness ==
    /\ filterRun.done
    /\ filterRun.allow = {200}
    /\ filterRun.resp.status = 204
    /\ filterRun.resp.payload = <<>>
    /\ filterRun.err = [type |-> "httpstatus", code |-> 204]

\* The Last-Modified header of the rule's response is there and is a date.
LastModifiedParses ==
    HeaderGet(validityRun.header, "Last-Modified")
        \in {"Mon, 01 Jul 2019 12:34:56 GMT", "Mon, 01 Jul 2019 00:00:00 GMT"}
\* The physical URL of the rule up to its query.
WithoutQuery ==
    CHOOSE p \in { SubSeq(validityRun.url, 1, n) : n \in 0..Len(validityRun.url) } :
        /\ \A i \in 1..Len(p) : p[i] # "?"
        /\ \/ p = validityRun.url
           \/ validityRun.url[Len(p) + 1] = "?"

\* C17: the rule AppendExtDotLastModified(ext) returns the physical URL
\* without its query, then ext, "." and the unix seconds of Last-Modified
\* when that header parses, of the date of the valid period when it is absent
\* or does not parse; in the latter case the result is that of
\* AppendExtDotExchangeDate(ext) on the same inputs; the result has nothing
\* of the query.
ValidityURLOfLastModified ==
    (validityRun.done /\ validityRun.rule.kind = "LastModified") =>
        /\ validityRun.got =
              WithoutQuery \o
              <<validityRun.rule.ext, ".",
                ToString(IF LastModifiedParses
                         THEN ParseTime(HeaderGet(validityRun.header, "Last-Modified")).unix
                         ELSE validityRun.vp.date)>>
        /\ ~LastModifiedParses =>
              validityRun.got =
                  Apply(AppendExtDotExchangeDate(validityRun.rule.ext), validityRun.url,
                        validityRun.header, validityRun.vp)
        /\ \A i \in 1..Len(validityRun.got) : validityRun.got[i] # "?"
        /\ Len(validityRun.got) = Len(WithoutQuery) + 3

\* A URL with a query and a Last-Modified that is no date: the result ends
\* with the date of the valid period, the query gone.
ValidityURLOfLastModifiedWitness ==
    /\ validityRun.done
    /\ validityRun.rule = AppendExtDotLastModified(".validity")
    /\ HeaderGet(validityRun.header, "Last-Modified") = "COMPLETELY_BROKEN_DATE_STRING"
    /\ validityRun.vp.date = 1561939200
    /\ validityRun.got =
          <<"https", ":", "/", "/", "example.com", "/", "index.php", ".validity", ".",
            "1561939200">>

====
